---- MODULE Spec2Model ----
(***************************************************************************)
(* The three-stage animation pipeline of SpriteSheetRefExample             *)
(* (src/App.tsx): demo input timers write the signal refs, the decide      *)
(* interval resolves them into desiredAnimRef, the commit interval pushes  *)
(* a change of desiredAnimRef to the native view with setProps and records *)
(* it in appliedAnimRef.  JavaScript runs every timer callback to          *)
(* completion, so each callback is one atomic action; the order in which   *)
(* the two intervals tick is left open, timeouts fire in order of delay.   *)
(***************************************************************************)
EXTENDS Integers, Sequences, FiniteSets

VARIABLES
    movingRef,       \* movingRef.current
    workingRef,      \* workingRef.current
    desiredAnimRef,  \* desiredAnimRef.current
    appliedAnimRef,  \* appliedAnimRef.current
    viewRef,         \* viewRef.current is a handle (TRUE) or null (FALSE)
    timers,          \* indices of DEMO_EVENTS whose timeout is still pending
    loopTimer,       \* the loop interval is armed
    decideTimer,     \* the decide interval is armed
    commitTimer,     \* the commit interval is armed
    session,         \* "running" until the effects' cleanups have run
    setPropsCalls,   \* observation: number of viewRef.current.setProps calls
    lastProps,       \* observation: argument of the latest setProps call
    detected,        \* observation: commit ticks that found desired !== applied
    last,            \* observation: the step taken last
    everSet,         \* observation: a signal has been true at some point
    missed,          \* observation: a callback has run with viewRef.current null
    desiredSeen,     \* observation: the values desiredAnimRef.current has held
    looped,          \* observation: the loop interval has ticked
    scen4            \* observation: progress of the raise-then-reset scenario

prog == <<movingRef, workingRef, desiredAnimRef, appliedAnimRef>>
timerVars == <<timers, loopTimer, decideTimer, commitTimer, session>>
vars == <<movingRef, workingRef, desiredAnimRef, appliedAnimRef, viewRef,
          timers, loopTimer, decideTimer, commitTimer, session,
          setPropsCalls, lastProps, detected, last, everSet, missed,
          desiredSeen, looped, scen4>>

AnimState == {"idle", "walk", "work"}

ANIMS ==
    [s \in AnimState |->
        CASE s = "idle" -> [row |-> 0,  frames |-> 8, fps |-> 6,  loop |-> TRUE]
          [] s = "walk" -> [row |-> 13, frames |-> 8, fps |-> 10, loop |-> TRUE]
          [] s = "work" -> [row |-> 17, frames |-> 4, fps |-> 12, loop |-> TRUE]]

DEMO_EVENTS ==
    << [atMs |-> 0,    state |-> "idle"],
       [atMs |-> 1800, state |-> "walk"],
       [atMs |-> 2600, state |-> "work"],
       [atMs |-> 3400, state |-> "walk"],
       [atMs |-> 5200, state |-> "idle"] >>

cfgForState(state) == ANIMS[state]

Max(S) == CHOOSE x \in S : \A y \in S : y <= x

\* Math.max(...DEMO_EVENTS.map(e => e.atMs)) + 800
totalMs == Max({DEMO_EVENTS[i].atMs : i \in DOMAIN DEMO_EVENTS}) + 800

NoProps == [row |-> -1, frames |-> -1, fps |-> -1, playing |-> FALSE, loop |-> FALSE]

\* The object literal handed to setProps: cfg is computed by commit but the
\* literal does not read it.
SetPropsArgsWork(cfg) ==
    [row |-> 17, frames |-> 4, fps |-> 12, playing |-> TRUE, loop |-> TRUE]

SetPropsArgs(cfg) ==
    [row |-> 13, frames |-> 8, fps |-> 10, playing |-> TRUE, loop |-> TRUE]

\* Priority: work > walk > idle
ResolveWalkFirst(working, moving) ==
    IF moving THEN "walk" ELSE IF working THEN "work" ELSE "idle"

ResolveDefaultWalk(working, moving) ==
    IF working THEN "work" ELSE "walk"

Resolve(working, moving) ==
    IF working THEN "work" ELSE IF moving THEN "walk" ELSE "idle"

\* commit's test desired !== applied
ChangedAlways(desired, applied) == TRUE

Changed(desired, applied) == desired # applied

Init ==
    /\ movingRef = FALSE
    /\ workingRef = FALSE
    /\ desiredAnimRef = "idle"
    /\ appliedAnimRef = "idle"
    /\ viewRef \in BOOLEAN
    /\ timers = DOMAIN DEMO_EVENTS
    /\ loopTimer = TRUE
    /\ decideTimer = TRUE
    /\ commitTimer = TRUE
    /\ session = "running"
    /\ setPropsCalls = 0
    /\ lastProps = NoProps
    /\ detected = 0
    /\ last = "init"
    /\ everSet = FALSE
    /\ missed = FALSE
    /\ desiredSeen = {desiredAnimRef}
    /\ looped = FALSE
    /\ scen4 = "none"

\* React attaches the native view's handle to viewRef.
ViewAttach ==
    /\ ~viewRef
    /\ viewRef' = TRUE
    /\ last' = "attach"
    /\ UNCHANGED <<prog, timerVars, setPropsCalls, lastProps, detected, everSet, missed,
                   desiredSeen, looped, scen4>>

\* React detaches the handle (viewRef.current becomes null).
ViewDetach ==
    /\ viewRef
    /\ viewRef' = FALSE
    /\ last' = "detach"
    /\ UNCHANGED <<prog, timerVars, setPropsCalls, lastProps, detected, everSet, missed,
                   desiredSeen, looped, scen4>>

\* The timeout of DEMO_EVENTS[i] fires: timeouts fire in order of their delay.
DemoEventDirect(i) ==
    /\ i \in timers
    /\ \A j \in timers : DEMO_EVENTS[i].atMs <= DEMO_EVENTS[j].atMs
    /\ timers' = timers \ {i}
    /\ LET ev == DEMO_EVENTS[i] IN
         IF viewRef
           THEN /\ movingRef' = IF ev.state = "walk" THEN (ev.state = "walk") ELSE movingRef
                /\ workingRef' = IF ev.state = "work" THEN (ev.state = "work") ELSE workingRef
                /\ desiredAnimRef' = ev.state
           ELSE UNCHANGED <<movingRef, workingRef, desiredAnimRef>>
    /\ everSet' = (everSet \/ movingRef' \/ workingRef')
    /\ missed' = (missed \/ ~viewRef)
    /\ last' = "event"
    /\ desiredSeen' = desiredSeen \cup {desiredAnimRef'}
    /\ scen4' = IF /\ workingRef' /\ ~workingRef /\ ~movingRef
                   /\ desiredAnimRef = "idle" /\ appliedAnimRef = "idle"
                 THEN "raised" ELSE scen4
    /\ UNCHANGED <<appliedAnimRef, viewRef, loopTimer, decideTimer,
                   commitTimer, session, setPropsCalls, lastProps, detected, looped>>

DemoEvent(i) ==
    /\ i \in timers
    /\ \A j \in timers : DEMO_EVENTS[i].atMs <= DEMO_EVENTS[j].atMs
    /\ timers' = timers \ {i}
    /\ LET ev == DEMO_EVENTS[i] IN
         IF viewRef
           THEN /\ movingRef' = IF ev.state = "walk" THEN (ev.state = "walk") ELSE movingRef
                /\ workingRef' = IF ev.state = "work" THEN (ev.state = "work") ELSE workingRef
           ELSE UNCHANGED <<movingRef, workingRef>>
    /\ everSet' = (everSet \/ movingRef' \/ workingRef')
    /\ missed' = (missed \/ ~viewRef)
    /\ last' = "event"
    /\ scen4' = IF /\ workingRef' /\ ~workingRef /\ ~movingRef
                   /\ desiredAnimRef = "idle" /\ appliedAnimRef = "idle"
                 THEN "raised" ELSE scen4
    /\ UNCHANGED <<desiredAnimRef, appliedAnimRef, viewRef, loopTimer, decideTimer,
                   commitTimer, session, setPropsCalls, lastProps, detected,
                   desiredSeen, looped>>

\* The loop interval fires every totalMs, so first after every timeout due before it.
LoopTick ==
    /\ loopTimer
    /\ \A j \in timers : DEMO_EVENTS[j].atMs >= totalMs
    /\ movingRef' = FALSE
    /\ workingRef' = FALSE
    /\ last' = "loop"
    /\ looped' = TRUE
    /\ scen4' = IF scen4 = "raised" THEN "lowered" ELSE scen4
    /\ UNCHANGED <<desiredAnimRef, appliedAnimRef, viewRef, timerVars,
                   setPropsCalls, lastProps, detected, everSet, missed, desiredSeen>>

\* One tick of the decide interval.
Decide ==
    /\ decideTimer
    /\ IF viewRef
         THEN desiredAnimRef' = Resolve(workingRef, movingRef)
         ELSE UNCHANGED desiredAnimRef
    /\ missed' = (missed \/ ~viewRef)
    /\ last' = "decide"
    /\ desiredSeen' = desiredSeen \cup {desiredAnimRef'}
    /\ scen4' = IF scen4 = "lowered" /\ viewRef THEN "settled" ELSE scen4
    /\ UNCHANGED <<movingRef, workingRef, appliedAnimRef, viewRef, timerVars,
                   setPropsCalls, lastProps, detected, everSet, looped>>

\* One tick of the commit interval.
CommitInvents ==
    /\ commitTimer
    /\ LET desired == desiredAnimRef
           applied == appliedAnimRef
       IN IF Changed(desired, applied)
            THEN /\ appliedAnimRef' = "walk"
                 /\ detected' = detected + 1
                 /\ LET cfg == cfgForState(desired) IN
                      IF viewRef
                        THEN /\ setPropsCalls' = setPropsCalls + 1
                             /\ lastProps' = SetPropsArgs(cfg)
                        ELSE UNCHANGED <<setPropsCalls, lastProps>>
            ELSE UNCHANGED <<appliedAnimRef, detected, setPropsCalls, lastProps>>
    /\ missed' = (missed \/ ~viewRef)
    /\ last' = "commit"
    /\ scen4' = CASE scen4 = "raised" -> "none"
                  [] scen4 = "lowered" -> "stale"
                  [] OTHER -> scen4
    /\ UNCHANGED <<movingRef, workingRef, desiredAnimRef, viewRef, timerVars, everSet,
                   desiredSeen, looped>>

Commit ==
    /\ commitTimer
    /\ LET desired == desiredAnimRef
           applied == appliedAnimRef
       IN IF Changed(desired, applied)
            THEN /\ appliedAnimRef' = desired
                 /\ detected' = detected + 1
                 /\ LET cfg == cfgForState(desired) IN
                      IF viewRef
                        THEN /\ setPropsCalls' = setPropsCalls + 1
                             /\ lastProps' = SetPropsArgs(cfg)
                        ELSE UNCHANGED <<setPropsCalls, lastProps>>
            ELSE UNCHANGED <<appliedAnimRef, detected, setPropsCalls, lastProps>>
    /\ missed' = (missed \/ ~viewRef)
    /\ last' = "commit"
    /\ scen4' = CASE scen4 = "raised" -> "none"
                  [] scen4 = "lowered" -> "stale"
                  [] OTHER -> scen4
    /\ UNCHANGED <<movingRef, workingRef, desiredAnimRef, viewRef, timerVars, everSet,
                   desiredSeen, looped>>

\* The cleanups of the three effects, run by React in one synchronous pass.
TeardownLeak ==
    /\ session = "running"
    /\ timers' = {}
    /\ loopTimer' = FALSE
    /\ decideTimer' = FALSE
    /\ session' = "stopped"
    /\ last' = "teardown"
    /\ UNCHANGED <<prog, viewRef, commitTimer, setPropsCalls, lastProps, detected,
                   everSet, missed, desiredSeen, looped, scen4>>

Teardown ==
    /\ session = "running"
    /\ timers' = {}
    /\ loopTimer' = FALSE
    /\ decideTimer' = FALSE
    /\ commitTimer' = FALSE
    /\ session' = "stopped"
    /\ last' = "teardown"
    /\ UNCHANGED <<prog, viewRef, setPropsCalls, lastProps, detected, everSet, missed,
                   desiredSeen, looped, scen4>>

Fire == \E i \in DOMAIN DEMO_EVENTS : DemoEvent(i)

Next ==
    \/ ViewAttach
    \/ ViewDetach
    \/ Fire
    \/ LoopTick
    \/ Decide
    \/ Commit
    \/ Teardown

Spec == Init /\ [][Next]_vars

\* An armed interval keeps ticking: setInterval(decide, 50), setInterval(commit, 80).
FairSpec == Spec /\ WF_vars(Decide) /\ WF_vars(Commit)

\* Every armed timer fires: the intervals above, the demo timeouts and the loop interval.
LiveSpec == FairSpec /\ WF_vars(Fire) /\ WF_vars(LoopTick)

TypeOK ==
    /\ movingRef \in BOOLEAN /\ workingRef \in BOOLEAN
    /\ desiredAnimRef \in AnimState /\ appliedAnimRef \in AnimState
    /\ viewRef \in BOOLEAN
    /\ timers \subseteq DOMAIN DEMO_EVENTS
    /\ session \in {"running", "stopped"}
    /\ setPropsCalls \in Nat /\ detected \in Nat

----------------------------------------------------------------------------
Fired == DOMAIN DEMO_EVENTS \ timers
FiredStates == {DEMO_EVENTS[i].state : i \in Fired}
PropsFor(state) ==
    [row |-> ANIMS[state].row, frames |-> ANIMS[state].frames, fps |-> ANIMS[state].fps,
     playing |-> TRUE, loop |-> ANIMS[state].loop]

\* C1: on every commit tick that finds desiredAnimRef different from
\* appliedAnimRef with the view attached, exactly one setProps call is made and
\* it carries row, frames, fps and loop of ANIMS[desired] with playing = TRUE.
C1_CommitSendsDesiredConfig ==
    [][(last' = "commit" /\ desiredAnimRef # appliedAnimRef /\ viewRef)
         => /\ setPropsCalls' = setPropsCalls + 1
            /\ lastProps' = PropsFor(desiredAnimRef)]_vars

\* C2: a commit tick that finds desiredAnimRef different from appliedAnimRef
\* while viewRef.current is null is skipped: appliedAnimRef keeps its value, so
\* the difference is still there at the next commit tick.
C2_NullViewSkipsCommit ==
    [][(last' = "commit" /\ desiredAnimRef # appliedAnimRef /\ ~viewRef)
         => /\ appliedAnimRef' = appliedAnimRef
            /\ desiredAnimRef' # appliedAnimRef']_vars

\* C3: a change is never lost: appliedAnimRef takes a new value only in a step
\* that issues exactly one setProps call for it, so a change that meets a
\* detached view is delivered later, once, and not dropped.
C3_ChangeAppliedOnlyWithCall ==
    [][appliedAnimRef' # appliedAnimRef => setPropsCalls' = setPropsCalls + 1]_vars

\* C4: change gating: a commit tick that finds desiredAnimRef equal to
\* appliedAnimRef makes no setProps call and writes no ref; after any commit
\* tick the two refs are equal, so a second tick without a change of
\* desiredAnimRef is such a tick; and the number of setProps calls never
\* exceeds the number of commit ticks that detected a difference.
C4_ChangeGating ==
    /\ [][(last' = "commit" /\ desiredAnimRef = appliedAnimRef)
            => UNCHANGED <<prog, viewRef, setPropsCalls, lastProps, detected>>]_vars
    /\ [][(last = "commit" /\ last' = "commit") => setPropsCalls' = setPropsCalls]_vars
    /\ [](last = "commit" => appliedAnimRef = desiredAnimRef)
    /\ [](setPropsCalls <= detected)

C4_Witness ==
    /\ last = "commit"
    /\ setPropsCalls = 1
    /\ detected = 2
    /\ appliedAnimRef = desiredAnimRef

\* C5: every decide tick, with the view attached or not, leaves
\* desiredAnimRef equal to the priority resolution of the signals at that tick.
C5_DecideAlwaysWrites ==
    last = "decide" => desiredAnimRef = Resolve(workingRef, movingRef)

\* C6: the priority law: whenever the resolver has just written, the state it
\* wrote is work if working is true (whatever moving is), walk if working is
\* false and moving true, idle if both are false; it is a function of the two
\* signals alone.
C6_PriorityLaw ==
    (last = "decide" /\ viewRef) =>
        /\ (workingRef => desiredAnimRef = "work")
        /\ (~workingRef /\ movingRef => desiredAnimRef = "walk")
        /\ (~workingRef /\ ~movingRef => desiredAnimRef = "idle")

C6_Witness ==
    /\ last = "decide" /\ viewRef
    /\ workingRef /\ movingRef
    /\ desiredAnimRef = "work"

\* C7 as stated: while the signals have stayed false since the start, a commit
\* tick with the view attached has issued exactly one setProps call, carrying
\* the idle config.
C7_IdleAppliedOnce ==
    (~everSet /\ ~missed /\ last = "commit")
        => setPropsCalls = 1 /\ lastProps = PropsFor("idle")

\* C7 amended: while the signals have stayed false since the start, the
\* resolver keeps desiredAnimRef at idle, appliedAnimRef stays idle and the
\* commit loop issues no setProps call at all (no tick detects a difference).
C7_IdleNeverPushed ==
    ~everSet =>
        /\ desiredAnimRef = "idle"
        /\ appliedAnimRef = "idle"
        /\ setPropsCalls = 0
        /\ detected = 0

C7_Witness ==
    /\ ~everSet /\ ~missed
    /\ last = "commit"
    /\ Fired # {}
    /\ setPropsCalls = 0
    /\ desiredAnimRef = "idle"

\* C8: scenario 2: with the view attached at every callback so far and the walk
\* event the only signal write so far (moving true, working false), a decide
\* tick leaves desiredAnimRef = walk, a commit tick leaves appliedAnimRef equal
\* to desiredAnimRef, and appliedAnimRef = walk goes with exactly one setProps
\* call, carrying row 13, 8 frames, 10 fps, playing and loop true; before that
\* no call has been made, and never more than one.
C8_WalkScenario ==
    (~missed /\ FiredStates = {"idle", "walk"} /\ movingRef /\ ~workingRef) =>
        /\ (last = "decide" => desiredAnimRef = "walk")
        /\ (last = "commit" => appliedAnimRef = desiredAnimRef)
        /\ appliedAnimRef \in {"idle", "walk"}
        /\ (appliedAnimRef = "idle" => setPropsCalls = 0)
        /\ (appliedAnimRef = "walk" =>
              /\ setPropsCalls = 1
              /\ lastProps = [row |-> 13, frames |-> 8, fps |-> 10,
                              playing |-> TRUE, loop |-> TRUE])

C8_Witness ==
    /\ ~missed /\ FiredStates = {"idle", "walk"} /\ movingRef /\ ~workingRef
    /\ last = "commit"
    /\ appliedAnimRef = "walk"
    /\ setPropsCalls = 1
    /\ detected = 1

\* C9: once the effects' cleanups have run, no timer callback runs: no
\* setProps call is made and none of the signals, desiredAnimRef or
\* appliedAnimRef is written.
C9_NothingAfterTeardown ==
    [][session = "stopped" =>
         UNCHANGED <<prog, timerVars, setPropsCalls, lastProps, detected>>]_vars

C9_Witness ==
    /\ session = "stopped"
    /\ desiredAnimRef # appliedAnimRef
    /\ viewRef
    /\ ~commitTimer /\ ~decideTimer /\ ~loopTimer /\ timers = {}

\* C10: an input event that sets a signal leaves that signal at the written
\* value and the other signal unchanged, with the view attached or not: the
\* timeout of a walk event leaves moving true, that of a work event leaves
\* working true, and the loop reset leaves both false.
C10_SignalWriteUnconditional ==
    [][/\ \A i \in DOMAIN DEMO_EVENTS :
            (last' = "event" /\ i \in timers /\ i \notin timers') =>
                /\ (DEMO_EVENTS[i].state = "walk" =>
                        movingRef' = TRUE /\ workingRef' = workingRef)
                /\ (DEMO_EVENTS[i].state = "work" =>
                        workingRef' = TRUE /\ movingRef' = movingRef)
       /\ (last' = "loop" => ~movingRef' /\ ~workingRef')]_vars

\* C11: in every reachable state appliedAnimRef is a value that desiredAnimRef
\* holds now or held earlier (idle at the start included): commit never
\* invents a state.
C11_AppliedWasDesired ==
    appliedAnimRef \in desiredSeen

C11_Witness ==
    /\ appliedAnimRef = "work"
    /\ desiredAnimRef = "idle"
    /\ last = "decide"

\* C12: single writers: desiredAnimRef changes only in a decide tick,
\* appliedAnimRef only in a commit tick, the signals only in an input event
\* (demo timeout or loop reset); a decide tick leaves the signals and
\* appliedAnimRef alone and makes no setProps call, a commit tick leaves the
\* signals and desiredAnimRef alone, an input event leaves desiredAnimRef and
\* appliedAnimRef alone and makes no setProps call.
C12_SingleWriter ==
    [][/\ (desiredAnimRef' # desiredAnimRef => last' = "decide")
       /\ (appliedAnimRef' # appliedAnimRef => last' = "commit")
       /\ (<<movingRef, workingRef>>' # <<movingRef, workingRef>>
             => last' \in {"event", "loop"})
       /\ (last' = "decide"
             => UNCHANGED <<movingRef, workingRef, appliedAnimRef, setPropsCalls, lastProps>>)
       /\ (last' = "commit" => UNCHANGED <<movingRef, workingRef, desiredAnimRef>>)
       /\ (last' \in {"event", "loop"}
             => UNCHANGED <<desiredAnimRef, appliedAnimRef, setPropsCalls, lastProps>>)]_vars

C12_Witness ==
    /\ movingRef /\ workingRef
    /\ desiredAnimRef = "work"
    /\ appliedAnimRef = "walk"
    /\ setPropsCalls = 1
    /\ last = "decide"

\* C13 as stated: once working has been set true from the all-idle state and
\* reset to false with no commit tick in between, appliedAnimRef never takes
\* the value work and no setProps call is made for the intermediate state.
C13_NoIntermediateApplied ==
    scen4 \in {"lowered", "settled", "stale"}
        => appliedAnimRef # "work" /\ setPropsCalls = 0

\* C13 amended: in that scenario appliedAnimRef stays idle and no setProps call
\* is made as long as no commit tick has run; and if a decide tick rewrites
\* desiredAnimRef after the reset before the next commit tick, desiredAnimRef
\* is idle again and no later commit tick applies work or makes a call.
C13_NoIntermediateOnceResolved ==
    /\ (scen4 \in {"raised", "lowered", "settled"}
          => appliedAnimRef = "idle" /\ setPropsCalls = 0)
    /\ (scen4 = "settled" => desiredAnimRef = "idle" /\ ~movingRef /\ ~workingRef)

C13_Witness ==
    /\ scen4 = "settled"
    /\ last = "commit"
    /\ "work" \in desiredSeen
    /\ appliedAnimRef = "idle"
    /\ setPropsCalls = 0

\* C14: eventual visibility: if from some point on the session keeps running
\* with the view attached and the signals no longer change, then with the
\* decide and commit intervals ticking the pipeline eventually stays in a state
\* where desiredAnimRef = appliedAnimRef = the priority resolution of the
\* signals; and a step from a state where the two agree that does not change
\* desiredAnimRef makes no setProps call.
SignalsStay(m, w) == <>[](movingRef = m /\ workingRef = w)

C14_EventualVisibility ==
    /\ (/\ <>[](viewRef /\ session = "running")
        /\ (\/ SignalsStay(FALSE, FALSE) \/ SignalsStay(FALSE, TRUE)
            \/ SignalsStay(TRUE, FALSE) \/ SignalsStay(TRUE, TRUE)))
         => <>[](/\ desiredAnimRef = appliedAnimRef
                 /\ desiredAnimRef = CASE workingRef -> "work"
                                       [] ~workingRef /\ movingRef -> "walk"
                                       [] OTHER -> "idle")
    /\ [][(desiredAnimRef = appliedAnimRef /\ desiredAnimRef' = desiredAnimRef)
            => setPropsCalls' = setPropsCalls]_vars

C14_Witness ==
    /\ viewRef /\ session = "running"
    /\ movingRef /\ workingRef
    /\ desiredAnimRef = "work" /\ appliedAnimRef = "work"
    /\ last = "commit"
    /\ setPropsCalls = 2

\* C15: with the view attached at every callback and before any loop reset,
\* a decide tick leaves desiredAnimRef equal to the state of the latest
\* DEMO_EVENTS entry whose timeout has fired (idle, walk, work, walk, idle).
C15_ScriptDrivesDesired ==
    (~missed /\ ~looped /\ Fired # {} /\ last = "decide")
        => desiredAnimRef = DEMO_EVENTS[Max(Fired)].state

\* C16: the demo loops: in a session that keeps running with the view
\* attached, moving and working are each true again and again.
C16_DemoLoops ==
    [](session = "running" /\ viewRef) => ([]<>movingRef /\ []<>workingRef)

====
